---------------------------- MODULE Spec2Model ----------------------------
(***************************************************************************)
(* Model of the BM25 index service (src/bm25-service/bm25_service.py):     *)
(* the BM25Manager registry (indices, metadata), the persisted files under *)
(* storage_path, and the request handlers create_index, search_index,      *)
(* delete_index and get_stats.                                             *)
(*                                                                         *)
(* Every handler is an `async def` that runs on the single event loop      *)
(* started by uvicorn.run (line 303).  The only awaits are on              *)
(* _save_index_to_disk and _load_index_from_disk, coroutines that do       *)
(* blocking file I/O and never suspend, so a handler runs from its first   *)
(* line to its return without another handler running in between: one      *)
(* action per handler is the exact grain of the interleaving.              *)
(*                                                                         *)
(* The bm25s library (tokenize, BM25, index, retrieve) and the file system *)
(* are outside the program.  Each call into them is a choice over the      *)
(* outcomes the caller can see: an exception, or a value.                  *)
(***************************************************************************)
EXTENDS Integers, Sequences, FiniteSets, TLC

VARIABLES
    indices,    \* self.indices : filename -> retriever            (line 47)
    metadata,   \* self.metadata: filename -> index metadata       (line 48)
    files,      \* the files under storage_path: path -> content   (line 49)
    clock,      \* number of builds stored so far; datetime.now()  (line 65)
    response,   \* what the last handler gave back to its caller
    built       \* history: filename -> the request of the create_index call
                \* that last stored a build under it in this process, for
                \* the names not deleted since

vars == <<indices, metadata, files, clock, response, built>>

----------------------------------------------------------------------------
(* Bounds *)

MaxChunks == 2      \* longest chunk list of a create request
MaxBuilds == 2      \* number of builds stored in one behaviour
MaxTopK   == 2      \* largest top_k of a search request

----------------------------------------------------------------------------
(* Inputs *)

\* Collection names are strings; a string is the sequence of its characters.
\* The two names differ only in a backslash against an underscore (a name
\* taken from the URL path cannot hold a slash, it can hold a backslash).
Names == { <<"a", "_", "b">>, <<"a", "\\", "b">> }

\* ChunkData (lines 29-32): id, text, metadata.
Chunk(n) == [id |-> <<"c", n>>, text |-> <<"text", n>>, metadata |-> <<"m", n>>]

\* The chunk lists of the create requests: <<>>, <<cN>>, <<cN-1, cN>>, ...
\* up to MaxChunks chunks.  The lists differ in length, a chunk id of a
\* longer list is missing from the shorter ones, and a chunk id sits at a
\* different position in each list that has it.
ChunkLists ==
    { [i \in 1 .. k |-> Chunk(MaxChunks - k + i)] : k \in 0 .. MaxChunks }

Queries == { "cat" }

TopKs == (-1) .. MaxTopK

----------------------------------------------------------------------------
(* Storage paths, lines 52-60 *)

\* filename.replace("/", "_").replace("\\", "_")
safe_filename(filename) ==
    [i \in DOMAIN filename |->
        IF filename[i] \in {"/", "\\"} THEN "_" ELSE filename[i]]

_get_index_path(filename) == <<safe_filename(filename), ".bm25">>

_get_metadata_path(filename) == <<safe_filename(filename), ".meta">>

exists(path) == path \in DOMAIN files

Range(f) == { f[x] : x \in DOMAIN f }

\* dict / directory updates
Put(d, k, v) == (k :> v) @@ d
Del(d, k) == [x \in DOMAIN d \ {k} |-> d[x]]

----------------------------------------------------------------------------
(* Serialisation, lines 178-183 and 200-205 *)

\* A file whose dump stopped half way: open() has truncated it, the dump
\* did not complete.  pickle.load and json.load raise on it.
Partial == [kind |-> "partial"]

\* pickle.dump(retriever, f): the byte stream holds the retriever's fields.
PickleDump(retriever) ==
    [kind |-> "pickle", stream |-> <<retriever.corpus_tokens, retriever.built_at>>]

\* pickle.load(f)
PickleLoad(content) ==
    [corpus_tokens |-> content.stream[1], built_at |-> content.stream[2]]

\* Mutant: the chunk_metadata member is written from chunk_ids.
JsonDump_ids_for_metadata(m) ==
    [kind |-> "json",
     members |-> << <<"filename", m.filename>>,
                    <<"chunk_count", m.chunk_count>>,
                    <<"chunk_ids", m.chunk_ids>>,
                    <<"chunk_metadata", m.chunk_ids>>,
                    <<"created_at", m.created_at>>,
                    <<"corpus_size", m.corpus_size>> >>]

\* json.dump(metadata, f, indent=2): the document is the list of members.
JsonDump(m) ==
    [kind |-> "json",
     members |-> << <<"filename", m.filename>>,
                    <<"chunk_count", m.chunk_count>>,
                    <<"chunk_ids", m.chunk_ids>>,
                    <<"chunk_metadata", m.chunk_metadata>>,
                    <<"created_at", m.created_at>>,
                    <<"corpus_size", m.corpus_size>> >>]

Member(doc, key) ==
    LET i == CHOOSE j \in DOMAIN doc.members : doc.members[j][1] = key
    IN  doc.members[i][2]

\* json.load(f)
JsonLoad(doc) ==
    [filename       |-> Member(doc, "filename"),
     chunk_count    |-> Member(doc, "chunk_count"),
     chunk_ids      |-> Member(doc, "chunk_ids"),
     chunk_metadata |-> Member(doc, "chunk_metadata"),
     created_at     |-> Member(doc, "created_at"),
     corpus_size    |-> Member(doc, "corpus_size")]

----------------------------------------------------------------------------
(* Init: BM25Manager.__init__, lines 45-50, on an empty storage directory *)

NoFiles == [p \in {} |-> Partial]
NoEntries == [n \in {} |-> Partial]

Init ==
    /\ indices = NoEntries
    /\ metadata = NoEntries
    /\ files = NoFiles
    /\ clock = 0
    /\ built = NoEntries
    /\ response = [request |-> [op |-> "restart", filename |-> <<>>], code |-> 200,
                   status |-> "started", results |-> <<>>]

----------------------------------------------------------------------------
(* The bm25s library, as create_index and search_index see it *)

\* bm25s.tokenize(corpus), line 85: one token list per text, in input order.
tokenize(corpus) == [i \in DOMAIN corpus |-> <<"tokens", corpus[i]>>]

\* What lines 85-93 can do: run through, or raise in tokenize (85) or in
\* the construction and indexing of the retriever (89, 93).
BuildOutcomes == {"ok", "tokenize_raises", "index_raises"}

\* The retriever of lines 89-93.  built_at is not a field of the Python
\* object: it names the create_index call that built it, so that a
\* retriever and a metadata record can be traced back to their builds.
BM25(corpus_tokens, start_time) ==
    [corpus_tokens |-> corpus_tokens, built_at |-> start_time]

\* Number of documents the retriever was indexed with.
NumDocs(retriever) == Len(retriever.corpus_tokens)

\* Doc indices retriever.retrieve may hand back (line 146).  The guard of
\* line 151 shows the caller does not rely on them being in range.
DocIndices == (-1) .. MaxChunks

\* retriever.retrieve(query_tokens, k=top_k), lines 143-146: raises, or
\* returns arrays of shape (1, k), of which the handler reads row 0.
RetrieveOutcomes(top_k) ==
    { [raises |-> TRUE, row |-> <<>>] }
        \cup { [raises |-> FALSE, row |-> r] :
                    r \in IF top_k >= 0 THEN [1 .. top_k -> DocIndices] ELSE {} }

----------------------------------------------------------------------------
(* _save_index_to_disk, lines 171-188 *)

\* Where the two writes can stop: open(index_path, 'wb') raises (178),
\* pickle.dump raises (179), open(metadata_path, 'w') raises (182),
\* json.dump raises (183), or nothing raises.
SaveOutcomes == {"ok", "open_index_raises", "dump_index_raises",
                 "open_metadata_raises", "dump_metadata_raises"}

\* The files after the call.  open() for writing creates or truncates the
\* file before anything is dumped into it.
_save_index_to_disk(filename, retriever, index_metadata, save) ==
    LET index_path == _get_index_path(filename)
        metadata_path == _get_metadata_path(filename)
    IN  CASE save = "open_index_raises" -> files
          [] save = "dump_index_raises" -> Put(files, index_path, Partial)
          [] save = "open_metadata_raises" ->
                Put(files, index_path, PickleDump(retriever))
          [] save = "dump_metadata_raises" ->
                Put(Put(files, index_path, PickleDump(retriever)),
                    metadata_path, Partial)
          [] OTHER ->
                Put(Put(files, index_path, PickleDump(retriever)),
                    metadata_path, JsonDump(index_metadata))

\* Mutant: _save_index_to_disk without its try/except.
SaveRaises_uncaught(save) == save # "ok"

\* Whether an exception of the save reaches create_index: the except of
\* lines 187-188 logs a warning and returns.
SaveRaises(save) == FALSE

----------------------------------------------------------------------------
(* create_index, lines 62-127 *)

\* Mutant: the flag of line 68 read the other way round.
AlreadyExists_flag_inverted(filename, replace_existing) ==
    replace_existing /\ filename \in DOMAIN indices

\* line 68
AlreadyExists(filename, replace_existing) ==
    ~replace_existing /\ filename \in DOMAIN indices

\* Mutant: the new chunks are appended to the chunk ids and metadata the
\* name already has.
IndexMetadata_appending(chunks, filename, start_time) ==
    LET old_ids == IF filename \in DOMAIN metadata
                   THEN metadata[filename].chunk_ids ELSE <<>>
        old_md == IF filename \in DOMAIN metadata
                  THEN metadata[filename].chunk_metadata ELSE <<>>
    IN  [filename       |-> filename,
         chunk_count    |-> Len(old_ids) + Len(chunks),
         chunk_ids      |-> old_ids \o [i \in DOMAIN chunks |-> chunks[i].id],
         chunk_metadata |-> old_md \o [i \in DOMAIN chunks |-> chunks[i].metadata],
         created_at     |-> start_time,
         corpus_size    |-> Len(old_ids) + Len(chunks)]

\* lines 80-81 and 99-106
IndexMetadata(chunks, filename, start_time) ==
    [filename       |-> filename,
     chunk_count    |-> Len(chunks),
     chunk_ids      |-> [i \in DOMAIN chunks |-> chunks[i].id],
     chunk_metadata |-> [i \in DOMAIN chunks |-> chunks[i].metadata],
     created_at     |-> start_time,
     corpus_size    |-> Len([i \in DOMAIN chunks |-> chunks[i].text])]

\* lines 79, 85-93
Retriever(chunks, start_time) ==
    BM25(tokenize([i \in DOMAIN chunks |-> chunks[i].text]), start_time)

\* Mutant: the retriever is stored right after line 89, before index().
IndicesAfterBuild_stored_early(filename, retriever, build) ==
    IF build \in {"ok", "index_raises"}
    THEN Put(indices, filename, retriever) ELSE indices

\* self.indices after lines 79-96: line 96 is reached only if 85-93 ran
\* through.
IndicesAfterBuild(filename, retriever, build) ==
    IF build = "ok" THEN Put(indices, filename, retriever) ELSE indices

\* self.metadata after lines 79-107
MetadataAfterBuild(filename, index_metadata, build) ==
    IF build = "ok" THEN Put(metadata, filename, index_metadata) ELSE metadata

CreateIndex(chunks, filename, replace_existing, build, save) ==
    LET start_time == clock + 1
        retriever == Retriever(chunks, start_time)
        index_metadata == IndexMetadata(chunks, filename, start_time)
        request == [op |-> "create", filename |-> filename]
    IN  IF AlreadyExists(filename, replace_existing)
        THEN /\ response' = [request |-> request, code |-> 200,
                             status |-> "exists", results |-> <<>>]
             /\ UNCHANGED <<indices, metadata, files, clock, built>>
        ELSE IF build # "ok"
        THEN /\ indices' = IndicesAfterBuild(filename, retriever, build)
             /\ metadata' = MetadataAfterBuild(filename, index_metadata, build)
             /\ response' = [request |-> request, code |-> 500,
                             status |-> build, results |-> <<>>]
             /\ UNCHANGED <<files, clock, built>>
        ELSE /\ clock < MaxBuilds
             /\ indices' = IndicesAfterBuild(filename, retriever, build)
             /\ metadata' = MetadataAfterBuild(filename, index_metadata, build)
             /\ files' = _save_index_to_disk(filename, retriever, index_metadata, save)
             /\ clock' = start_time
             /\ built' = Put(built, filename,
                             [chunks |-> chunks,
                              replaced |-> filename \in DOMAIN indices,
                              old_ids |-> IF filename \in DOMAIN metadata
                                          THEN Range(metadata[filename].chunk_ids)
                                          ELSE {}])
             /\ response' =
                    IF SaveRaises(save)
                    THEN [request |-> request, code |-> 500,
                          status |-> save, results |-> <<>>]
                    ELSE [request |-> request, code |-> 200,
                          status |-> "indexed", results |-> <<>>]

----------------------------------------------------------------------------
(* _load_index_from_disk, lines 190-215 *)

\* What reading the two files can do beyond what their content decides:
\* open() or read() raises (an I/O error), or they run through.
LoadOutcomes == {"ok", "read_raises"}

\* Whether lines 196-205 run through: both paths exist (196), and both
\* files are read and decoded without an exception.
Loadable(filename, load) ==
    /\ exists(_get_index_path(filename))
    /\ exists(_get_metadata_path(filename))
    /\ load = "ok"
    /\ files[_get_index_path(filename)].kind = "pickle"
    /\ files[_get_metadata_path(filename)].kind = "json"

\* Mutant: the loaded retriever is returned but not put into self.indices.
IndicesAfterLoad_not_stored(filename, load) == indices

\* self.indices after the call (line 207)
IndicesAfterLoad(filename, load) ==
    IF Loadable(filename, load)
    THEN Put(indices, filename, PickleLoad(files[_get_index_path(filename)]))
    ELSE indices

\* Mutant: the loaded metadata is not put into self.metadata.
MetadataAfterLoad_not_stored(filename, load) == metadata

\* self.metadata after the call (line 208)
MetadataAfterLoad(filename, load) ==
    IF Loadable(filename, load)
    THEN Put(metadata, filename, JsonLoad(files[_get_metadata_path(filename)]))
    ELSE metadata

----------------------------------------------------------------------------
(* search_index, lines 129-169 *)

\* line 151
Kept(idx, chunk_ids) == idx < Len(chunk_ids)

\* Python's list[idx]: a negative idx counts from the end; outside
\* -len .. len-1 it raises IndexError.
InList(idx, list) == idx >= -Len(list) /\ idx < Len(list)
At(idx, list) == IF idx >= 0 THEN list[idx + 1] ELSE list[Len(list) + idx + 1]

\* Whether lines 150-157 raise for the doc indices idxs.
FormatRaises(idxs, md) ==
    \E i \in DOMAIN idxs :
        /\ Kept(idxs[i], md.chunk_ids)
        /\ ~(InList(idxs[i], md.chunk_ids) /\ InList(idxs[i], md.chunk_metadata))

\* One entry of results, lines 152-157.  The score is the one the
\* retriever gave to doc idx: it is named by the retriever's build and idx.
ResultAt(i, idx, retriever, md) ==
    [rank     |-> i,
     chunk_id |-> At(idx, md.chunk_ids),
     score    |-> [built_at |-> retriever.built_at, idx |-> idx],
     metadata |-> At(idx, md.chunk_metadata)]

\* lines 149-157: results in the order of idxs, the dropped ones left out.
RECURSIVE FormatFrom(_, _, _, _)
FormatFrom(i, idxs, retriever, md) ==
    IF i > Len(idxs) THEN <<>>
    ELSE IF Kept(idxs[i], md.chunk_ids)
         THEN <<ResultAt(i, idxs[i], retriever, md)>>
                \o FormatFrom(i + 1, idxs, retriever, md)
         ELSE FormatFrom(i + 1, idxs, retriever, md)

FormatResults(idxs, retriever, md) == FormatFrom(1, idxs, retriever, md)

\* The response of lines 136-169, once the lazy load of 132-134 has left
\* the registry as (ind, meta).  The HTTPException(404) of line 137 is
\* raised inside the try of line 131, and HTTPException is an Exception:
\* the except of line 167 catches it and raises the 500 of line 169.
SearchResponse(request, ind, meta, retrieved) ==
    IF request.filename \notin DOMAIN ind
    THEN [request |-> request, code |-> 500,
          status |-> "Search failed: 404: Index not found", results |-> <<>>]
    ELSE IF request.filename \notin DOMAIN meta
    THEN [request |-> request, code |-> 500,
          status |-> "Search failed: KeyError", results |-> <<>>]
    ELSE IF retrieved.raises
    THEN [request |-> request, code |-> 500,
          status |-> "Search failed: retrieve", results |-> <<>>]
    ELSE IF FormatRaises(retrieved.row, meta[request.filename])
    THEN [request |-> request, code |-> 500,
          status |-> "Search failed: IndexError", results |-> <<>>]
    ELSE [request |-> request, code |-> 200, status |-> "success",
          results |-> FormatResults(retrieved.row, ind[request.filename],
                                    meta[request.filename])]

SearchIndex(query, filename, top_k, load, retrieved) ==
    LET request == [op |-> "search", filename |-> filename]
        miss == filename \notin DOMAIN indices
    IN  /\ indices' = IF miss THEN IndicesAfterLoad(filename, load) ELSE indices
        /\ metadata' = IF miss THEN MetadataAfterLoad(filename, load) ELSE metadata
        /\ response' = SearchResponse(request, indices', metadata', retrieved)
        /\ UNCHANGED <<files, clock, built>>

----------------------------------------------------------------------------
(* delete_index, lines 277-299 *)

\* Where the two removals can stop: os.remove(index_path) raises (292),
\* os.remove(metadata_path) raises (294), or nothing raises.
DeleteOutcomes == {"ok", "remove_index_raises", "remove_metadata_raises"}

\* Whether the exception of the outcome happens: os.remove is called only
\* on a path that exists (291, 293).
RemoveRaises(filename, remove) ==
    \/ remove = "remove_index_raises" /\ exists(_get_index_path(filename))
    \/ remove = "remove_metadata_raises" /\ exists(_get_metadata_path(filename))

\* Mutant: the metadata file is never removed.
FilesAfterDelete_keeps_metadata(filename, remove) ==
    IF remove = "remove_index_raises" /\ exists(_get_index_path(filename))
    THEN files
    ELSE Del(files, _get_index_path(filename))

\* The files after lines 288-294.
FilesAfterDelete(filename, remove) ==
    IF remove = "remove_index_raises" /\ exists(_get_index_path(filename))
    THEN files
    ELSE IF remove = "remove_metadata_raises" /\ exists(_get_metadata_path(filename))
    THEN Del(files, _get_index_path(filename))
    ELSE Del(Del(files, _get_index_path(filename)), _get_metadata_path(filename))

DeleteIndex(filename, remove) ==
    LET request == [op |-> "delete", filename |-> filename]
    IN  /\ indices' = Del(indices, filename)
        /\ metadata' = Del(metadata, filename)
        /\ files' = FilesAfterDelete(filename, remove)
        /\ response' =
              IF RemoveRaises(filename, remove)
              THEN [request |-> request, code |-> 500,
                    status |-> "Failed to delete index", results |-> <<>>]
              ELSE [request |-> request, code |-> 200,
                    status |-> "deleted", results |-> <<>>]
        /\ built' = Del(built, filename)
        /\ UNCHANGED clock

----------------------------------------------------------------------------
(* get_stats, lines 225-239 *)

Stats ==
    [total_indices |-> Cardinality(DOMAIN indices),
     indices |-> [f \in DOMAIN metadata |->
                    [chunk_count |-> metadata[f].chunk_count,
                     created_at  |-> metadata[f].created_at,
                     corpus_size |-> metadata[f].corpus_size]]]

GetStats ==
    /\ response' = [request |-> [op |-> "stats", filename |-> <<>>], code |-> 200,
                    status |-> "stats", results |-> <<>>, stats |-> Stats]
    /\ UNCHANGED <<indices, metadata, files, clock, built>>

----------------------------------------------------------------------------
(* A new process on the same storage directory: line 242 runs __init__    *)
(* again (lines 45-50), the files stay (makedirs with exist_ok, line 49). *)

Restart ==
    /\ indices' = NoEntries
    /\ metadata' = NoEntries
    /\ response' = [request |-> [op |-> "restart", filename |-> <<>>], code |-> 200,
                    status |-> "started", results |-> <<>>]
    /\ built' = NoEntries
    /\ UNCHANGED <<files, clock>>

----------------------------------------------------------------------------

\* The requests come with any input; an outcome of the library or of the
\* file system is chosen where the handler reaches the call that has it.
Next ==
    \/ \E chunks \in ChunkLists, filename \in Names, replace_existing \in BOOLEAN :
         \E build \in (IF AlreadyExists(filename, replace_existing)
                       THEN {"ok"} ELSE BuildOutcomes) :
           \E save \in (IF build = "ok" /\ ~AlreadyExists(filename, replace_existing)
                        THEN SaveOutcomes ELSE {"ok"}) :
                CreateIndex(chunks, filename, replace_existing, build, save)
    \/ \E query \in Queries, filename \in Names, top_k \in TopKs :
         \E load \in (IF filename \in DOMAIN indices THEN {"ok"} ELSE LoadOutcomes) :
           \E retrieved \in (IF filename \in DOMAIN indices \/ Loadable(filename, load)
                             THEN RetrieveOutcomes(top_k)
                             ELSE { [raises |-> TRUE, row |-> <<>>] }) :
                SearchIndex(query, filename, top_k, load, retrieved)
    \/ \E filename \in Names :
         \E remove \in {"ok"} \cup { r \in DeleteOutcomes : RemoveRaises(filename, r) } :
            DeleteIndex(filename, remove)
    \/ GetStats
    \/ Restart

Spec == Init /\ [][Next]_vars

----------------------------------------------------------------------------
(* Vocabulary of the properties *)

\* The registry entry of a name as the pair the spec speaks of; <<>> when
\* the map has no such key.
Resident(d, filename) == IF filename \in DOMAIN d THEN <<d[filename]>> ELSE <<>>

\* The persisted artifact and metadata of a name: what the two paths hold.
Persisted(fs, filename) ==
    << Resident(fs, _get_index_path(filename)),
       Resident(fs, _get_metadata_path(filename)) >>

Ids(chunks) == { chunks[i].id : i \in DOMAIN chunks }

LastWas(op, filename) == response.request = [op |-> op, filename |-> filename]

----------------------------------------------------------------------------
\* C1: create with replace_existing = false on a collection that is in the
\* registry answers 'exists' and changes neither the registry maps nor the
\* files, whatever the chunks.
C1_ExistsMutatesNothing ==
    [][\A filename \in Names, chunks \in ChunkLists :
          (/\ response'.request = [op |-> "create", filename |-> filename]
           /\ filename \in DOMAIN indices
           /\ \E build \in BuildOutcomes, save \in SaveOutcomes :
                  CreateIndex(chunks, filename, FALSE, build, save))
          => /\ response'.status = "exists"
             /\ indices' = indices
             /\ metadata' = metadata
             /\ files' = files]_vars

\* A create answered 'exists' for a resident collection whose chunk ids
\* are not the ones of every request, so that a rebuild would have shown.
C1_Witness ==
    /\ response.status = "exists"
    /\ response.request.filename \in DOMAIN indices
    /\ metadata[response.request.filename].chunk_count = 1

----------------------------------------------------------------------------
\* C2: while a build stored by create_index is the current one of its name
\* (no delete of the name and no restart since), the registry holds exactly
\* the retriever and the metadata built from that request's chunks, and a
\* successful search on the name returns only chunk ids of those chunks; if
\* the create replaced a resident collection, no chunk id that only the
\* replaced build had is returned.
C2_ReplaceLeavesOnlyNewChunks ==
    \A filename \in DOMAIN built :
        LET chunks == built[filename].chunks
        IN  /\ filename \in DOMAIN indices
            /\ filename \in DOMAIN metadata
            /\ metadata[filename].chunk_ids = [i \in DOMAIN chunks |-> chunks[i].id]
            /\ metadata[filename].chunk_metadata
                    = [i \in DOMAIN chunks |-> chunks[i].metadata]
            /\ indices[filename].corpus_tokens
                    = tokenize([i \in DOMAIN chunks |-> chunks[i].text])
            /\ indices[filename].built_at = metadata[filename].created_at
            /\ (LastWas("search", filename) /\ response.code = 200)
                => \A i \in DOMAIN response.results :
                      /\ response.results[i].chunk_id \in Ids(chunks)
                      /\ response.results[i].chunk_id
                            \notin (built[filename].old_ids \ Ids(chunks))

\* A search answered with a result from a collection whose current build
\* replaced a resident one that had a chunk id the new chunks lack.
C2_Witness ==
    \E filename \in DOMAIN built :
        /\ built[filename].replaced
        /\ built[filename].old_ids \ Ids(built[filename].chunks) # {}
        /\ LastWas("search", filename)
        /\ response.code = 200
        /\ response.results # <<>>

----------------------------------------------------------------------------
\* C3: a search on a name with no registry entry and no persisted artifact
\* or metadata is answered with the 404 (not found), and changes neither
\* the registry nor the files.
C3_SearchMissingIsNotFound ==
    [][\A filename \in Names :
          (/\ Resident(indices, filename) = <<>>
           /\ Resident(metadata, filename) = <<>>
           /\ Persisted(files, filename) = << <<>>, <<>> >>
           /\ response'.request = [op |-> "search", filename |-> filename])
          => /\ response'.code = 404
             /\ indices' = indices
             /\ metadata' = metadata
             /\ files' = files]_vars

----------------------------------------------------------------------------
----------------------------------------------------------------------------
\* C5: a create whose tokenization or retriever construction raises answers
\* 500 and changes neither the registry nor the files; after any create
\* the registry pair of the name is the pair it had before or the complete
\* new pair, never a new retriever with the old metadata or the reverse.
C5_FailedBuildKeepsOldPair ==
    [][\A filename \in Names :
          response'.request = [op |-> "create", filename |-> filename]
          => /\ response'.code = 500
                => (indices' = indices /\ metadata' = metadata /\ files' = files)
             /\ \A chunks \in ChunkLists, replace_existing \in BOOLEAN,
                   build \in BuildOutcomes \ {"ok"} :
                    (/\ ~AlreadyExists(filename, replace_existing)
                     /\ CreateIndex(chunks, filename, replace_existing, build, "ok"))
                    => response'.code = 500
             /\ \/ /\ Resident(indices', filename) = Resident(indices, filename)
                   /\ Resident(metadata', filename) = Resident(metadata, filename)
                \/ \E chunks \in ChunkLists :
                   /\ Resident(indices', filename) = <<Retriever(chunks, clock')>>
                   /\ Resident(metadata', filename)
                        = <<IndexMetadata(chunks, filename, clock')>>]_vars

\* A create on a resident collection failed in its build.
C5_Witness ==
    \E filename \in DOMAIN indices :
        /\ LastWas("create", filename)
        /\ response.code = 500
        /\ response.status \in BuildOutcomes

----------------------------------------------------------------------------
\* C6: a create whose build runs through answers 'indexed' and leaves the
\* newly built pair in the registry, whatever the save did.
C6_SaveFailureIsNotFatal ==
    [][\A filename \in Names :
          response'.request = [op |-> "create", filename |-> filename]
          => \A chunks \in ChunkLists, replace_existing \in BOOLEAN,
                save \in SaveOutcomes :
                (/\ ~AlreadyExists(filename, replace_existing)
                 /\ CreateIndex(chunks, filename, replace_existing, "ok", save))
                => /\ response'.status = "indexed"
                   /\ Resident(indices', filename) = <<Retriever(chunks, clock + 1)>>
                   /\ Resident(metadata', filename)
                        = <<IndexMetadata(chunks, filename, clock + 1)>>]_vars

\* A create answered 'indexed' although the files do not hold the pair it
\* built.
C6_Witness ==
    \E filename \in DOMAIN indices :
        /\ LastWas("create", filename)
        /\ response.status = "indexed"
        /\ Persisted(files, filename)
             # << <<PickleDump(indices[filename])>>, <<JsonDump(metadata[filename])>> >>

----------------------------------------------------------------------------
\* C7: every result of a successful search (with a doc index the retriever
\* has a document for) has its score from the retriever of the same build
\* as the metadata that gave its chunk id and metadata.
C7_SearchUsesOneBuild ==
    \A filename \in Names :
        (LastWas("search", filename) /\ response.code = 200)
        => \A i \in DOMAIN response.results :
              (/\ response.results[i].score.idx >= 0
               /\ response.results[i].score.idx < NumDocs(indices[filename]))
              => /\ indices[filename].built_at = metadata[filename].created_at
                 /\ response.results[i].score.built_at
                        = metadata[filename].created_at

----------------------------------------------------------------------------
\* C8: a create, search or delete on one name leaves the registry entry
\* and the persisted artifact and metadata of every other name unchanged.
C8_OtherNamesUndisturbed ==
    [][\A B \in Names :
          (/\ response'.request.filename = B
           /\ response'.request.op \in {"create", "search", "delete"})
          => \A A \in Names \ {B} :
                /\ Resident(indices', A) = Resident(indices, A)
                /\ Resident(metadata', A) = Resident(metadata, A)
                /\ Persisted(files', A) = Persisted(files, A)]_vars

----------------------------------------------------------------------------
\* C9: every collection in the registry has chunk_ids, chunk_metadata,
\* corpus_size and chunk_count of one length, which is the number of
\* documents of its resident retriever.
C9_LengthsAgree ==
    \A filename \in DOMAIN indices :
        /\ filename \in DOMAIN metadata
        /\ Len(metadata[filename].chunk_ids) = Len(metadata[filename].chunk_metadata)
        /\ Len(metadata[filename].chunk_ids) = metadata[filename].corpus_size
        /\ metadata[filename].corpus_size = metadata[filename].chunk_count
        /\ metadata[filename].corpus_size = NumDocs(indices[filename])

----------------------------------------------------------------------------
\* C10: a successful search returns at most top_k results; every result
\* comes from a doc index idx with 0 <= idx < corpus_size and carries the
\* chunk id and metadata stored at idx; a doc index outside that range is
\* not surfaced.
C10_OnlyValidDocIndices ==
    [][\A filename \in Names :
          (/\ response'.request = [op |-> "search", filename |-> filename]
           /\ response'.code = 200)
          => \A query \in Queries, top_k \in TopKs, load \in LoadOutcomes :
               \A retrieved \in RetrieveOutcomes(top_k) :
                 SearchIndex(query, filename, top_k, load, retrieved)
                 => LET md == metadata'[filename]
                    IN  /\ Len(response'.results) <= top_k
                        /\ \A i \in DOMAIN response'.results :
                             LET r == response'.results[i]
                                 idx == r.score.idx
                             IN  /\ 0 <= idx /\ idx < md.corpus_size
                                 /\ r.chunk_id = md.chunk_ids[idx + 1]
                                 /\ r.metadata = md.chunk_metadata[idx + 1]
                        /\ \A j \in DOMAIN retrieved.row :
                             (retrieved.row[j] < 0 \/ retrieved.row[j] >= md.corpus_size)
                             => \A i \in DOMAIN response'.results :
                                    response'.results[i].rank # j]_vars

----------------------------------------------------------------------------
----------------------------------------------------------------------------
\* C12: in every state of the files, a name whose two files a load would
\* read through (both exist, neither is a half-written one) has an
\* artifact file and a metadata file written by the same build.
C12_PersistedPairIsOneBuild ==
    \A filename \in Names :
        Loadable(filename, "ok")
        => PickleLoad(files[_get_index_path(filename)]).built_at
              = JsonLoad(files[_get_metadata_path(filename)]).created_at

----------------------------------------------------------------------------
\* C13: a search on a name with no registry entry adds an entry only if
\* both files of the name exist and the corpus_size and the chunk_count of
\* the loaded metadata are the number of documents of the loaded
\* retriever; otherwise it leaves the registry as it was.
C13_LoadOnlyConsistentPairs ==
    [][\A filename \in Names :
          (/\ response'.request = [op |-> "search", filename |-> filename]
           /\ filename \notin DOMAIN indices)
          => \/ /\ exists(_get_index_path(filename))
                /\ exists(_get_metadata_path(filename))
                /\ filename \in DOMAIN indices'
                /\ filename \in DOMAIN metadata'
                /\ metadata'[filename].corpus_size = NumDocs(indices'[filename])
                /\ metadata'[filename].chunk_count = NumDocs(indices'[filename])
             \/ /\ indices' = indices
                /\ metadata' = metadata]_vars

----------------------------------------------------------------------------
\* C14: two distinct names the registry holds have distinct artifact paths
\* and distinct metadata paths, and the metadata a name has in the registry
\* was written for that name, never read from the files of another one.
C14_DistinctNamesDistinctPaths ==
    /\ \A A \in DOMAIN indices, B \in DOMAIN indices :
          A # B => /\ _get_index_path(A) # _get_index_path(B)
                   /\ _get_metadata_path(A) # _get_metadata_path(B)
    /\ \A filename \in DOMAIN metadata :
          metadata[filename].filename = filename

----------------------------------------------------------------------------
\* C15: a search with a negative top_k leaves the registry as it was: it
\* loads no collection from the files.
C15_NegativeTopKLeavesRegistry ==
    [][\A filename \in Names :
          response'.request = [op |-> "search", filename |-> filename]
          => \A query \in Queries, top_k \in { k \in TopKs : k < 0 },
                load \in LoadOutcomes :
               \A retrieved \in RetrieveOutcomes(top_k) :
                 SearchIndex(query, filename, top_k, load, retrieved)
                 => /\ indices' = indices
                    /\ metadata' = metadata]_vars

----------------------------------------------------------------------------
\* C16: a search on a collection in the registry with N documents and a
\* top_k above N is answered 200 with N results, of ranks 1 .. N, one for
\* each document of the collection.
C16_TopKAboveCorpusReturnsAll ==
    [][\A filename \in Names :
          (/\ response'.request = [op |-> "search", filename |-> filename]
           /\ filename \in DOMAIN indices
           /\ filename \in DOMAIN metadata)
          => LET N == NumDocs(indices[filename])
             IN  \A query \in Queries, top_k \in { k \in TopKs : k > N } :
                   \A retrieved \in RetrieveOutcomes(top_k) :
                     SearchIndex(query, filename, top_k, "ok", retrieved)
                     => /\ response'.code = 200
                        /\ Len(response'.results) = N
                        /\ \A i \in 1 .. N : response'.results[i].rank = i
                        /\ { response'.results[i].score.idx : i \in 1 .. N }
                              = 0 .. (N - 1)]_vars

----------------------------------------------------------------------------
\* C17: a create with an empty chunk list whose build runs through answers
\* 'indexed' and leaves the name in the registry with corpus_size = 0,
\* chunk_count = 0 and no chunk ids or chunk metadata; and a search on a
\* collection in the registry that has no documents is answered 200 with
\* an empty result list, for every top_k.
C17_EmptyCollectionSearchesEmpty ==
    [][\A filename \in Names :
          /\ (/\ response'.request = [op |-> "create", filename |-> filename]
              /\ \E replace_existing \in BOOLEAN, save \in SaveOutcomes :
                    /\ ~AlreadyExists(filename, replace_existing)
                    /\ CreateIndex(<<>>, filename, replace_existing, "ok", save))
             => /\ response'.status = "indexed"
                /\ filename \in DOMAIN indices'
                /\ NumDocs(indices'[filename]) = 0
                /\ metadata'[filename].corpus_size = 0
                /\ metadata'[filename].chunk_count = 0
                /\ metadata'[filename].chunk_ids = <<>>
                /\ metadata'[filename].chunk_metadata = <<>>
          /\ (/\ response'.request = [op |-> "search", filename |-> filename]
              /\ filename \in DOMAIN indices
              /\ filename \in DOMAIN metadata
              /\ NumDocs(indices[filename]) = 0
              /\ metadata[filename].corpus_size = 0
              /\ metadata[filename].chunk_ids = <<>>)
             => /\ response'.code = 200
                /\ response'.results = <<>>]_vars

----------------------------------------------------------------------------
\* C18: a search on a name with no registry entry whose two files are read
\* through puts the decoded retriever and metadata into the registry,
\* leaves the files alone, answers from that pair, and the name is listed
\* by get_stats with the loaded metadata's figures; a search on a name in
\* the registry changes neither the registry nor the files (it does not
\* load again); a name in the registry stays there through every step but
\* a delete of it and a restart; get_stats answers the snapshot of the
\* registry and changes nothing.
C18_LazyLoadLeavesResident ==
    [][/\ \A filename \in Names :
            LET request == [op |-> "search", filename |-> filename]
                index_path == _get_index_path(filename)
                metadata_path == _get_metadata_path(filename)
            IN
            /\ (/\ response'.request = request
                /\ filename \notin DOMAIN indices
                /\ Loadable(filename, "ok")
                /\ \E query \in Queries, top_k \in TopKs :
                      \E retrieved \in RetrieveOutcomes(top_k) :
                        SearchIndex(query, filename, top_k, "ok", retrieved))
               => /\ indices' = Put(indices, filename, PickleLoad(files[index_path]))
                  /\ metadata' = Put(metadata, filename, JsonLoad(files[metadata_path]))
                  /\ files' = files
                  /\ filename \in DOMAIN Stats'.indices
                  /\ Stats'.indices[filename].corpus_size
                        = JsonLoad(files[metadata_path]).corpus_size
                  /\ Stats'.indices[filename].created_at
                        = JsonLoad(files[metadata_path]).created_at
                  /\ response'.code = 200
                     => \E top_k \in TopKs : \E row \in [1 .. top_k -> DocIndices] :
                           response'.results
                             = FormatResults(row, PickleLoad(files[index_path]),
                                             JsonLoad(files[metadata_path]))
            /\ (/\ response'.request = request
                /\ filename \in DOMAIN indices)
               => /\ indices' = indices
                  /\ metadata' = metadata
                  /\ files' = files
            /\ (/\ filename \in DOMAIN indices
                /\ filename \in DOMAIN metadata
                /\ response'.request.op # "restart"
                /\ response'.request # [op |-> "delete", filename |-> filename])
               => /\ filename \in DOMAIN indices'
                  /\ filename \in DOMAIN Stats'.indices
       /\ response'.request.op = "stats"
          => /\ response'.stats = Stats
             /\ indices' = indices
             /\ metadata' = metadata
             /\ files' = files]_vars

\* get_stats lists a collection that this process did not build: a search
\* loaded it from the files.
C18_Witness ==
    /\ response.request.op = "stats"
    /\ \E filename \in DOMAIN response.stats.indices :
          /\ filename \in DOMAIN indices
          /\ filename \notin DOMAIN built
          /\ response.stats.indices[filename].corpus_size > 0

----------------------------------------------------------------------------
\* C19: for every name that is in the registry and whose two files a load
\* would read through, the artifact file is of the build of the resident
\* retriever and the metadata file of the build of the resident metadata.
C19_ResidentAndPersistedAreOneBuild ==
    \A filename \in DOMAIN indices :
        (filename \in DOMAIN metadata /\ Loadable(filename, "ok"))
        => /\ PickleLoad(files[_get_index_path(filename)]).built_at
                = indices[filename].built_at
           /\ JsonLoad(files[_get_metadata_path(filename)]).created_at
                = metadata[filename].created_at

----------------------------------------------------------------------------
\* C20: in every state the names with a retriever in the registry are the
\* names with metadata in the registry; no search fails for a retriever
\* without metadata; and the total_indices of a get_stats answer is the
\* number of collections it lists under indices.
C20_RegistryMapsInStep ==
    /\ DOMAIN indices = DOMAIN metadata
    /\ response.request.op = "search"
       => response.status # "Search failed: KeyError"
    /\ response.request.op = "stats"
       => /\ response.stats.total_indices
               = Cardinality(DOMAIN response.stats.indices)
          /\ DOMAIN response.stats.indices = DOMAIN indices

\* get_stats counted two collections, one built by this process and one
\* that a search loaded from the files.
C20_Witness ==
    /\ response.request.op = "stats"
    /\ response.stats.total_indices = 2
    /\ \E A \in DOMAIN indices, B \in DOMAIN indices :
          A \in DOMAIN built /\ B \notin DOMAIN built

=============================================================================
